---- MODULE Spec2Model ----
(***************************************************************************)
(* servprobe: the alert dispatcher (internal/alert), the scheduler         *)
(* (internal/scheduler) and the store operations the scheduler uses        *)
(* (internal/storage), as a state machine.                                 *)
(*                                                                         *)
(* Time is a monotonic clock counted in half seconds (0, 0.5s, 1s, ...).   *)
(* Every goroutine is a thread of the model: the direct callers of         *)
(* Alerter.Notify (Callers), one Service Task Loop per service (the loop   *)
(* of service s is the thread s), and one send task per dispatched         *)
(* notification (an entry of sends).                                       *)
(***************************************************************************)
EXTENDS Integers, Sequences, FiniteSets, TLC

VARIABLES
    now,        \* the clock read by time.Now / time.Since
    cooldown,   \* Alerter.cooldown
    lastAlert,  \* Alerter.lastAlert: a map service name -> time
    mu,         \* Alerter.mu: the thread holding the mutex, or None
    npc,        \* per thread: its position inside Alerter.Notify
    call,       \* per thread: arguments and outcome of its latest Notify call
    sends,      \* the send goroutines started so far, in dispatch order
    ncalls,     \* number of Notify calls made by the direct callers
    services,   \* Scheduler.services: the configured service names
    onResult,   \* Scheduler.onResult: None, or "Notify" once runServe has set it
    started,    \* Scheduler.Start has been called
    ctxDone,    \* the context passed to Start has been cancelled
    wg,         \* Scheduler.wg: the WaitGroup counter
    waitpc,     \* the caller of Scheduler.Wait: "none", "waiting" or "returned"
    lpc,        \* per service: the position of its runService goroutine
    ticker,     \* per service: the time.Ticker of its loop and its channel
    cur,        \* per service: the locals of the runCheck in progress
    last,       \* per service: the result of the loop's previous Check
    checks,     \* storage: the rows of table checks
    env,        \* a single operation run on its own: its arguments and what the
                \* operations it calls return (None when none is run)
    ret,        \* what that operation returned (None before it returns)
    cmd,        \* the one-off check command: the position of runChecks and of
                \* its goroutines, its results slice and what it has printed
    lastOutcome \* per service (history): how the latest Notify call of its loop
                \* that has returned to runCheck ended, None before the first

avars == <<now, cooldown, lastAlert, mu, npc, call, sends, ncalls>>
svars == <<services, onResult, started, ctxDone, wg, waitpc, lpc, ticker, cur, last, checks>>
ovars == <<env, ret, cmd, lastOutcome>>
vars == <<now, cooldown, lastAlert, mu, npc, call, sends, ncalls,
          services, onResult, started, ctxDone, wg, waitpc, lpc, ticker, cur, last, checks,
          env, ret, cmd, lastOutcome>>

(***************************************************************************)
(* Bounds of the model.                                                    *)
(***************************************************************************)
MaxTime == 2
MaxCooldown == 2
MaxCalls == 2
MaxTimeSched == 1
MaxTimeLong == 4

Services == {"a", "b"}
Callers == {"t1", "t2"}
Threads == Callers \cup Services
None == "none"
StatusUp == "up"
StatusDown == "down"
Statuses == {StatusUp, StatusDown}

(***************************************************************************)
(* Alerter                                                                 *)
(***************************************************************************)

\* Notify's two early returns: no previous status, or no state change.
SkipOnlyAbsent(status, prev) == prev = None
Skip(status, prev) == prev = None \/ status = prev

\* a.mu.Lock() can be taken by thread t.
MuAvailableNoLock(t) == TRUE
MuAvailable(t) == mu = None

\* The key under which Notify reads and writes the cooldown map.
CooldownKeyShared(svc) == "a"
CooldownKey(svc) == svc

\* exists && time.Since(last) < a.cooldown
CooldownActiveOffByOne(svc) ==
    /\ CooldownKey(svc) \in DOMAIN lastAlert
    /\ now - lastAlert[CooldownKey(svc)] < cooldown - 1
CooldownActiveInclusive(svc) ==
    /\ CooldownKey(svc) \in DOMAIN lastAlert
    /\ now - lastAlert[CooldownKey(svc)] <= cooldown
CooldownActive(svc) ==
    /\ CooldownKey(svc) \in DOMAIN lastAlert
    /\ now - lastAlert[CooldownKey(svc)] < cooldown

\* a.lastAlert[k] = t
MapPut(m, k, t) == [x \in DOMAIN m \cup {k} |-> IF x = k THEN t ELSE m[x]]

\* No send was dispatched for svc less than cooldown ago (from the record of
\* dispatches, not from the cooldown map). A call records it in elig when it
\* enters and again when it compares the clock with the map.
NoRecentDispatch(svc) ==
    \A i \in 1..Len(sends) : sends[i].svc = svc => now - sends[i].at >= cooldown

NoCall == [svc |-> "a", status |-> StatusUp, prev |-> None, outcome |-> "nocall",
           elig |-> FALSE, nsent |-> 0]

\* The record of a call that has returned with the given outcome.
Returned(c, outcome) == [c EXCEPT !.outcome = outcome]
Entered(svc, status, prev) == [svc |-> svc, status |-> status, prev |-> prev,
                               outcome |-> "pending", elig |-> NoRecentDispatch(svc),
                               nsent |-> 0]

\* Notify, lines 49-57: the caller enters with (result, previousStatus).
NotifyEnter(t, svc, status, prev) ==
    /\ npc[t] = "idle"
    /\ IF Skip(status, prev)
       THEN /\ call' = [call EXCEPT ![t] = Returned(Entered(svc, status, prev), "skipped")]
            /\ npc' = npc
       ELSE /\ call' = [call EXCEPT ![t] = Entered(svc, status, prev)]
            /\ npc' = [npc EXCEPT ![t] = "lock"]
    /\ UNCHANGED <<now, cooldown, lastAlert, mu, sends>>
    /\ UNCHANGED ovars

\* Notify, line 60: a.mu.Lock()
NotifyLock(t) ==
    /\ npc[t] = "lock"
    /\ MuAvailable(t)
    /\ mu' = t
    /\ npc' = [npc EXCEPT ![t] = "check"]
    /\ UNCHANGED <<now, cooldown, lastAlert, call, sends, ncalls, svars>>
    /\ UNCHANGED ovars

\* Notify, lines 61-66: read the map, compare with the clock; inside the
\* cooldown: unlock, log, return.
NotifyCheckSliding(t) ==
    /\ npc[t] = "check"
    /\ IF CooldownActive(call[t].svc)
       THEN /\ mu' = None
            /\ npc' = [npc EXCEPT ![t] = "idle"]
            /\ call' = [call EXCEPT ![t] =
                   Returned([@ EXCEPT !.elig = NoRecentDispatch(call[t].svc)], "suppressed")]
            /\ lastAlert' = MapPut(lastAlert, CooldownKey(call[t].svc), now)
       ELSE /\ npc' = [npc EXCEPT ![t] = "update"]
            /\ call' = [call EXCEPT ![t].elig = NoRecentDispatch(call[t].svc)]
            /\ UNCHANGED <<mu, lastAlert>>
    /\ UNCHANGED <<now, cooldown, sends, ncalls, svars>>
    /\ UNCHANGED ovars
NotifyCheck(t) ==
    /\ npc[t] = "check"
    /\ IF CooldownActive(call[t].svc)
       THEN /\ mu' = None
            /\ npc' = [npc EXCEPT ![t] = "idle"]
            /\ call' = [call EXCEPT ![t] =
                   Returned([@ EXCEPT !.elig = NoRecentDispatch(call[t].svc)], "suppressed")]
       ELSE /\ npc' = [npc EXCEPT ![t] = "update"]
            /\ call' = [call EXCEPT ![t].elig = NoRecentDispatch(call[t].svc)]
            /\ mu' = mu
    /\ UNCHANGED <<now, cooldown, lastAlert, sends, ncalls, svars>>
    /\ UNCHANGED ovars

\* Notify, lines 67-71: record time.Now(), unlock, go a.send(...), return.
\* The time recorded is the time of the dispatch; the go statement starts the
\* send task and does not wait for it.
NotifyUpdateWaits(t) ==
    /\ npc[t] = "update"
    /\ \A i \in 1..Len(sends) : sends[i].st # "spawned"
    /\ lastAlert' = MapPut(lastAlert, CooldownKey(call[t].svc), now)
    /\ mu' = None
    /\ sends' = Append(sends, [svc |-> call[t].svc, status |-> call[t].status,
                               prev |-> call[t].prev, at |-> now, st |-> "spawned"])
    /\ npc' = [npc EXCEPT ![t] = "idle"]
    /\ call' = [call EXCEPT ![t] =
           Returned([@ EXCEPT !.nsent = @ + Len(sends') - Len(sends)], "dispatched")]
    /\ UNCHANGED <<now, cooldown, ncalls, svars>>
    /\ UNCHANGED ovars
NotifyUpdateKeepsFirst(t) ==
    /\ npc[t] = "update"
    /\ lastAlert' = IF CooldownKey(call[t].svc) \in DOMAIN lastAlert THEN lastAlert
                    ELSE MapPut(lastAlert, CooldownKey(call[t].svc), now)
    /\ mu' = None
    /\ sends' = Append(sends, [svc |-> call[t].svc, status |-> call[t].status,
                               prev |-> call[t].prev, at |-> now, st |-> "spawned"])
    /\ npc' = [npc EXCEPT ![t] = "idle"]
    /\ call' = [call EXCEPT ![t] =
           Returned([@ EXCEPT !.nsent = @ + Len(sends') - Len(sends)], "dispatched")]
    /\ UNCHANGED <<now, cooldown, ncalls, svars>>
    /\ UNCHANGED ovars
NotifyUpdate(t) ==
    /\ npc[t] = "update"
    /\ lastAlert' = MapPut(lastAlert, CooldownKey(call[t].svc), now)
    /\ mu' = None
    /\ sends' = Append(sends, [svc |-> call[t].svc, status |-> call[t].status,
                               prev |-> call[t].prev, at |-> now, st |-> "spawned"])
    /\ npc' = [npc EXCEPT ![t] = "idle"]
    /\ call' = [call EXCEPT ![t] =
           Returned([@ EXCEPT !.nsent = @ + Len(sends') - Len(sends)], "dispatched")]
    /\ UNCHANGED <<now, cooldown, ncalls, svars>>
    /\ UNCHANGED ovars

\* delete(m, k)
MapDelete(m, k) == [x \in DOMAIN m \ {k} |-> m[x]]

\* send, lines 74-104, run by the goroutine of sends[i]: marshal the payload
\* (an error ends the task), POST it (a transport error ends the task), warn
\* on a status >= 300. Every outcome is logged at most; nothing is returned.
SendOutcomes == {"marshal_error", "transport_error", "non_2xx", "delivered"}
SendRollback(i) ==
    /\ i \in 1..Len(sends)
    /\ sends[i].st = "spawned"
    /\ \E r \in SendOutcomes :
           /\ sends' = [sends EXCEPT ![i].st = r]
           /\ lastAlert' = IF r = "delivered" THEN lastAlert
                                             ELSE MapDelete(lastAlert, sends[i].svc)
    /\ UNCHANGED <<now, cooldown, mu, npc, call, ncalls, svars>>
    /\ UNCHANGED ovars
Send(i) ==
    /\ i \in 1..Len(sends)
    /\ sends[i].st = "spawned"
    /\ \E r \in SendOutcomes : sends' = [sends EXCEPT ![i].st = r]
    /\ UNCHANGED <<now, cooldown, lastAlert, mu, npc, call, ncalls, svars>>
    /\ UNCHANGED ovars

\* The clock advances.
ClockTick ==
    /\ now < MaxTime
    /\ now' = now + 1
    /\ UNCHANGED <<cooldown, lastAlert, mu, npc, call, sends, ncalls, svars>>
    /\ UNCHANGED ovars

\* A direct caller invokes Notify with any arguments.
CallerNotify(t) ==
    /\ ncalls < MaxCalls
    /\ ncalls' = ncalls + 1
    /\ UNCHANGED svars
    /\ \E svc \in Services, status \in Statuses, prev \in Statuses \cup {None} :
           NotifyEnter(t, svc, status, prev)
    /\ UNCHANGED ovars

\* alert.New, lines 25-36
AlerterInit ==
    /\ now = 0
    /\ cooldown \in {0, MaxCooldown}
    /\ lastAlert = << >>
    /\ mu = None
    /\ npc = [t \in Threads |-> "idle"]
    /\ call = [t \in Threads |-> NoCall]
    /\ sends = << >>
    /\ ncalls = 0
    /\ lastOutcome = [s \in Services |-> None]

\* The scheduler before scheduler.New: nothing configured, nothing running.
NoProbe == [prev |-> None, readErr |-> FALSE, status |-> None, at |-> 0, inserts |-> 0]
SchedulerIdle ==
    /\ onResult = None
    /\ started = FALSE
    /\ ctxDone = FALSE
    /\ wg = 0
    /\ waitpc = "none"
    /\ lpc = [s \in Services |-> "unstarted"]
    /\ ticker = [s \in Services |-> "none"]
    /\ cur = [s \in Services |-> NoProbe]
    /\ last = [s \in Services |-> NoProbe]
    /\ checks = {}

\* No operation is run on its own.
NoEnv == [op |-> None]
NoRet == [outcome |-> None]
NoCommand == [pc |-> None]
NoOperation == env = NoEnv /\ ret = NoRet /\ cmd = NoCommand

InitAlerter == AlerterInit /\ services = {} /\ SchedulerIdle /\ NoOperation

NextAlerter ==
    \/ \E t \in Callers : CallerNotify(t)
    \/ \E t \in Callers : NotifyLock(t)
    \/ \E t \in Callers : NotifyCheck(t)
    \/ \E t \in Callers : NotifyUpdate(t)
    \/ \E i \in 1..Len(sends) : Send(i)
    \/ ClockTick

SpecAlerter == InitAlerter /\ [][NextAlerter]_vars

(***************************************************************************)
(* Storage (internal/storage): the two operations the scheduler uses       *)
(***************************************************************************)

\* CheckedAt.UTC().Format(time.RFC3339Nano) of a time t counted in half
\* seconds, as the text of its seconds field and what follows it: two digits,
\* the fraction with its trailing zeros removed and its dot (nothing for a
\* whole second, ".5" for a half), and "Z". A character is its ASCII code.
FormatRFC3339Nano(t) ==
    <<48 + ((t \div 2) \div 10), 48 + ((t \div 2) % 10)>>
        \o (IF t % 2 = 0 THEN << >> ELSE <<46, 48 + 5>>)
        \o <<90>>

\* The BINARY collation of SQLite on TEXT: bytewise, a proper prefix first.
RECURSIVE TextLess(_, _)
TextLess(x, y) ==
    IF y = << >> THEN FALSE
    ELSE IF x = << >> THEN TRUE
    ELSE IF Head(x) # Head(y) THEN Head(x) < Head(y)
    ELSE TextLess(Tail(x), Tail(y))

\* INSERT INTO checks (service, status, ..., checked_at) VALUES (...)
InsertRow(svc, status, at) ==
    [service |-> svc, status |-> status, checked_at |-> FormatRFC3339Nano(at)]

\* SELECT ... WHERE service = ? ORDER BY checked_at DESC LIMIT 1: the rows the
\* query can return (the order among rows of equal checked_at is not fixed).
LatestRows(svc) ==
    {r \in checks : /\ r.service = svc
                    /\ \A q \in checks :
                           q.service = svc => ~TextLess(r.checked_at, q.checked_at)}

\* LatestCheck, lines 93-106: what a call can return, as (status of the
\* returned check or None for nil, error or not). The query fails once ctx is
\* cancelled and can fail at any time; no row is (nil, nil).
LatestCheck(svc) ==
    {[status |-> None, err |-> TRUE]}
        \cup (IF ctxDone THEN {}
              ELSE IF LatestRows(svc) = {} THEN {[status |-> None, err |-> FALSE]}
              ELSE {[status |-> r.status, err |-> FALSE] : r \in LatestRows(svc)})

(***************************************************************************)
(* Scheduler                                                               *)
(***************************************************************************)

\* Start, lines 53-64: one factory call per service; a goroutine and a
\* wg.Add(1) for each service whose factory call succeeded.
StartStopsAtFailure ==
    /\ ~started
    /\ started' = TRUE
    /\ \E ok \in SUBSET services :
           LET reached(s) == s = "a" \/ "a" \in ok
           IN  /\ lpc' = [s \in Services |->
                             IF s \in services /\ reached(s)
                             THEN (IF s \in ok THEN "latest" ELSE "skipped")
                             ELSE lpc[s]]
               /\ wg' = wg + Cardinality({s \in ok : reached(s)})
    /\ UNCHANGED <<avars, services, onResult, ctxDone, waitpc, ticker, cur, last, checks>>
    /\ UNCHANGED ovars
StartAddsOnce ==
    /\ ~started
    /\ started' = TRUE
    /\ \E ok \in SUBSET services :
           /\ lpc' = [s \in Services |-> IF s \in ok THEN "latest"
                                         ELSE IF s \in services THEN "skipped"
                                         ELSE lpc[s]]
           /\ wg' = wg + (IF ok = {} THEN 0 ELSE 1)
    /\ UNCHANGED <<avars, services, onResult, ctxDone, waitpc, ticker, cur, last, checks>>
    /\ UNCHANGED ovars
StartTickFirst ==
    /\ ~started
    /\ started' = TRUE
    /\ \E ok \in SUBSET services :
           /\ lpc' = [s \in Services |-> IF s \in ok THEN "select"
                                         ELSE IF s \in services THEN "skipped"
                                         ELSE lpc[s]]
           /\ ticker' = [s \in Services |-> IF s \in ok THEN "armed" ELSE ticker[s]]
           /\ wg' = wg + Cardinality(ok)
    /\ UNCHANGED <<avars, services, onResult, ctxDone, waitpc, cur, last, checks>>
    /\ UNCHANGED ovars
Start ==
    /\ ~started
    /\ started' = TRUE
    /\ \E ok \in SUBSET services :
           /\ lpc' = [s \in Services |-> IF s \in ok THEN "latest"
                                         ELSE IF s \in services THEN "skipped"
                                         ELSE lpc[s]]
           /\ wg' = wg + Cardinality(ok)
    /\ UNCHANGED <<avars, services, onResult, ctxDone, waitpc, ticker, cur, last, checks>>
    /\ UNCHANGED ovars

\* The context is cancelled (SIGTERM/SIGINT in runServe).
Cancel ==
    /\ ~ctxDone
    /\ ctxDone' = TRUE
    /\ UNCHANGED <<avars, services, onResult, started, wg, waitpc, lpc, ticker, cur, last, checks>>
    /\ UNCHANGED ovars

\* Wait, lines 67-69: s.wg.Wait() is called ...
WaitCall ==
    /\ started
    /\ waitpc = "none"
    /\ waitpc' = "waiting"
    /\ UNCHANGED <<avars, services, onResult, started, ctxDone, wg, lpc, ticker, cur, last, checks>>
    /\ UNCHANGED ovars

\* ... and returns once the counter is zero.
WaitReturnJoinsSends ==
    /\ waitpc = "waiting"
    /\ wg = 0
    /\ \A i \in 1..Len(sends) : sends[i].st # "spawned"
    /\ waitpc' = "returned"
    /\ UNCHANGED <<avars, services, onResult, started, ctxDone, wg, lpc, ticker, cur, last, checks>>
    /\ UNCHANGED ovars
WaitReturn ==
    /\ waitpc = "waiting"
    /\ wg = 0
    /\ waitpc' = "returned"
    /\ UNCHANGED <<avars, services, onResult, started, ctxDone, wg, lpc, ticker, cur, last, checks>>
    /\ UNCHANGED ovars

\* runCheck, lines 91-95: prev, err := s.store.LatestCheck(ctx, svc.Name).
\* An error (always, once ctx is cancelled) leaves prev nil.
RunCheckLatestAborts(s) ==
    /\ lpc[s] = "latest"
    /\ \E r \in LatestCheck(s) :
           IF r.err
           THEN /\ lpc' = [lpc EXCEPT ![s] = "select"]
                /\ ticker' = IF ticker[s] = "none" THEN [ticker EXCEPT ![s] = "armed"]
                                                   ELSE ticker
                /\ cur' = cur
           ELSE /\ cur' = [cur EXCEPT ![s] = [prev |-> r.status, readErr |-> r.err,
                                               status |-> None, at |-> 0, inserts |-> 0]]
                /\ lpc' = [lpc EXCEPT ![s] = "check"]
                /\ ticker' = ticker
    /\ UNCHANGED <<avars, services, onResult, started, ctxDone, wg, waitpc, last, checks>>
    /\ UNCHANGED ovars
RunCheckLatest(s) ==
    /\ lpc[s] = "latest"
    /\ \E r \in LatestCheck(s) :
           cur' = [cur EXCEPT ![s] = [prev |-> r.status, readErr |-> r.err,
                                      status |-> None, at |-> 0, inserts |-> 0]]
    /\ lpc' = [lpc EXCEPT ![s] = "check"]
    /\ UNCHANGED <<avars, services, onResult, started, ctxDone, wg, waitpc, ticker, last, checks>>
    /\ UNCHANGED ovars

\* runCheck, line 97: result := c.Check(ctx); CheckedAt is the time at which
\* Check starts, later than the CheckedAt of the loop's previous Check.
RunCheckProbeSerial(s) ==
    /\ lpc[s] = "check"
    /\ \A u \in Services \ {s} : lpc[u] \notin {"insert", "callback"}
    /\ last[s].status = None \/ now > last[s].at
    /\ \E st \in Statuses :
           /\ cur' = [cur EXCEPT ![s].status = st, ![s].at = now]
           /\ last' = [last EXCEPT ![s] = [prev |-> last[s].status, readErr |-> FALSE,
                                            status |-> st, at |-> now, inserts |-> 0]]
    /\ lpc' = [lpc EXCEPT ![s] = "insert"]
    /\ UNCHANGED <<avars, services, onResult, started, ctxDone, wg, waitpc, ticker, checks>>
    /\ UNCHANGED ovars
RunCheckProbeAborts(s) ==
    /\ lpc[s] = "check"
    /\ last[s].status = None \/ now > last[s].at
    /\ \E st \in Statuses :
           /\ cur' = [cur EXCEPT ![s].status = st, ![s].at = now]
           /\ last' = [last EXCEPT ![s] = [prev |-> last[s].status, readErr |-> FALSE,
                                            status |-> st, at |-> now, inserts |-> 0]]
    /\ lpc' = [lpc EXCEPT ![s] = IF ctxDone THEN "callback" ELSE "insert"]
    /\ UNCHANGED <<avars, services, onResult, started, ctxDone, wg, waitpc, ticker, checks>>
    /\ UNCHANGED ovars
RunCheckProbe(s) ==
    /\ lpc[s] = "check"
    /\ last[s].status = None \/ now > last[s].at
    /\ \E st \in Statuses :
           /\ cur' = [cur EXCEPT ![s].status = st, ![s].at = now]
           /\ last' = [last EXCEPT ![s] = [prev |-> last[s].status, readErr |-> FALSE,
                                            status |-> st, at |-> now, inserts |-> 0]]
    /\ lpc' = [lpc EXCEPT ![s] = "insert"]
    /\ UNCHANGED <<avars, services, onResult, started, ctxDone, wg, waitpc, ticker, checks>>
    /\ UNCHANGED ovars

\* runCheck, lines 106-108: InsertCheck is called once; it stores the row or
\* fails (always, once ctx is cancelled); the error is logged and runCheck
\* goes on.
RunCheckInsertRetries(s) ==
    /\ lpc[s] = "insert"
    /\ \/ /\ ~ctxDone
          /\ checks' = checks \cup {InsertRow(s, cur[s].status, cur[s].at)}
          /\ lpc' = [lpc EXCEPT ![s] = "callback"]
       \/ /\ checks' = checks
          /\ lpc' = [lpc EXCEPT ![s] = IF cur[s].inserts = 0 THEN "insert" ELSE "callback"]
    /\ cur' = [cur EXCEPT ![s].inserts = @ + 1]
    /\ UNCHANGED <<avars, services, onResult, started, ctxDone, wg, waitpc, ticker, last>>
    /\ UNCHANGED ovars
RunCheckInsertFatal(s) ==
    /\ lpc[s] = "insert"
    /\ \/ /\ ~ctxDone
          /\ checks' = checks \cup {InsertRow(s, cur[s].status, cur[s].at)}
          /\ lpc' = [lpc EXCEPT ![s] = "callback"]
       \/ /\ checks' = checks
          /\ lpc' = [lpc EXCEPT ![s] = "stopped"]
    /\ cur' = [cur EXCEPT ![s].inserts = @ + 1]
    /\ UNCHANGED <<avars, services, onResult, started, ctxDone, wg, waitpc, ticker, last>>
    /\ UNCHANGED ovars
RunCheckInsert(s) ==
    /\ lpc[s] = "insert"
    /\ \/ /\ ~ctxDone
          /\ checks' = checks \cup {InsertRow(s, cur[s].status, cur[s].at)}
       \/ checks' = checks
    /\ cur' = [cur EXCEPT ![s].inserts = @ + 1]
    /\ lpc' = [lpc EXCEPT ![s] = "callback"]
    /\ UNCHANGED <<avars, services, onResult, started, ctxDone, wg, waitpc, ticker, last>>
    /\ UNCHANGED ovars

\* runService, lines 77-78, after the first runCheck: time.NewTicker.
AfterRunCheck(s) == IF ticker[s] = "none" THEN [ticker EXCEPT ![s] = "armed"] ELSE ticker

\* runCheck, lines 110-117: the callback is called with (result, prevStatus);
\* with no callback runCheck returns.
RunCheckCallbackRereads(s) ==
    /\ lpc[s] = "callback"
    /\ IF onResult = None
       THEN /\ lpc' = [lpc EXCEPT ![s] = "select"]
            /\ ticker' = AfterRunCheck(s)
            /\ cur' = [cur EXCEPT ![s] = NoProbe]
            /\ UNCHANGED <<npc, call>>
       ELSE /\ \E r \in LatestCheck(s) : NotifyEnter(s, s, cur[s].status, r.status)
            /\ lpc' = [lpc EXCEPT ![s] = "notify"]
            /\ UNCHANGED <<ticker, cur>>
    /\ UNCHANGED <<now, cooldown, lastAlert, mu, sends, ncalls>>
    /\ UNCHANGED <<services, onResult, started, ctxDone, wg, waitpc, last, checks>>
    /\ UNCHANGED ovars
RunCheckCallback(s) ==
    /\ lpc[s] = "callback"
    /\ IF onResult = None
       THEN /\ lpc' = [lpc EXCEPT ![s] = "select"]
            /\ ticker' = AfterRunCheck(s)
            /\ cur' = [cur EXCEPT ![s] = NoProbe]
            /\ UNCHANGED <<npc, call>>
       ELSE /\ NotifyEnter(s, s, cur[s].status, cur[s].prev)
            /\ lpc' = [lpc EXCEPT ![s] = "notify"]
            /\ UNCHANGED <<ticker, cur>>
    /\ UNCHANGED <<now, cooldown, lastAlert, mu, sends, ncalls>>
    /\ UNCHANGED <<services, onResult, started, ctxDone, wg, waitpc, last, checks>>
    /\ UNCHANGED ovars

\* Notify has returned to runCheck, line 116, and runCheck to runService.
CallbackReturn(s) ==
    /\ lpc[s] = "notify"
    /\ npc[s] = "idle"
    /\ lpc' = [lpc EXCEPT ![s] = "select"]
    /\ ticker' = AfterRunCheck(s)
    /\ cur' = [cur EXCEPT ![s] = NoProbe]
    /\ call' = [call EXCEPT ![s] = NoCall]
    /\ lastOutcome' = [lastOutcome EXCEPT ![s] = call[s].outcome]
    /\ UNCHANGED <<now, cooldown, lastAlert, mu, npc, sends, ncalls>>
    /\ UNCHANGED <<services, onResult, started, ctxDone, wg, waitpc, last, checks>>
    /\ UNCHANGED <<env, ret, cmd>>

\* The ticker delivers a tick; its channel holds one tick, a further one is dropped.
TickerFireRunsCheck(s) ==
    /\ ticker[s] = "armed"
    /\ lpc' = [lpc EXCEPT ![s] = "latest"]
    /\ UNCHANGED <<avars, services, onResult, started, ctxDone, wg, waitpc, ticker, cur, last, checks>>
    /\ UNCHANGED ovars
TickerFire(s) ==
    /\ ticker[s] = "armed"
    /\ ticker' = [ticker EXCEPT ![s] = "ticked"]
    /\ UNCHANGED <<avars, services, onResult, started, ctxDone, wg, waitpc, lpc, cur, last, checks>>
    /\ UNCHANGED ovars

\* runService, lines 84-85: the select receives the tick and runs runCheck
\* (whether or not ctx.Done() is ready too: select picks any ready case).
\* Within the bounded clock a probe is started only while a later CheckedAt
\* than the previous one is left.
LoopTickKeepsTick(s) ==
    /\ lpc[s] = "select"
    /\ ticker[s] = "ticked"
    /\ last[s].at < MaxTime
    /\ lpc' = [lpc EXCEPT ![s] = "latest"]
    /\ UNCHANGED <<avars, services, onResult, started, ctxDone, wg, waitpc, ticker, cur, last, checks>>
    /\ UNCHANGED ovars
LoopTick(s) ==
    /\ lpc[s] = "select"
    /\ ticker[s] = "ticked"
    /\ last[s].at < MaxTime
    /\ ticker' = [ticker EXCEPT ![s] = "armed"]
    /\ lpc' = [lpc EXCEPT ![s] = "latest"]
    /\ UNCHANGED <<avars, services, onResult, started, ctxDone, wg, waitpc, cur, last, checks>>
    /\ UNCHANGED ovars

\* runService, lines 82-83 and the defers: ctx.Done() is received; the loop
\* returns, ticker.Stop() and wg.Done() run.
LoopExitNoDone(s) ==
    /\ lpc[s] = "select"
    /\ ctxDone
    /\ lpc' = [lpc EXCEPT ![s] = "stopped"]
    /\ ticker' = [ticker EXCEPT ![s] = "stopped"]
    /\ UNCHANGED <<avars, services, onResult, started, ctxDone, wg, waitpc, cur, last, checks>>
    /\ UNCHANGED ovars
LoopExit(s) ==
    /\ lpc[s] = "select"
    /\ ctxDone
    /\ lpc' = [lpc EXCEPT ![s] = "stopped"]
    /\ ticker' = [ticker EXCEPT ![s] = "stopped"]
    /\ wg' = wg - 1
    /\ UNCHANGED <<avars, services, onResult, started, ctxDone, waitpc, cur, last, checks>>
    /\ UNCHANGED ovars

(***************************************************************************)
(* The wired system of runServe: one configured service, the store, the    *)
(* scheduler, and an Alerter as result callback when a webhook URL is set. *)
(***************************************************************************)
Init ==
    /\ AlerterInit
    /\ services = {"a"}
    /\ onResult \in {None, "Notify"}
    /\ started = FALSE
    /\ ctxDone = FALSE
    /\ wg = 0
    /\ waitpc = "none"
    /\ lpc = [s \in Services |-> "unstarted"]
    /\ ticker = [s \in Services |-> "none"]
    /\ cur = [s \in Services |-> NoProbe]
    /\ last = [s \in Services |-> NoProbe]
    /\ checks = {}
    /\ NoOperation

Next ==
    \/ Start
    \/ Cancel
    \/ WaitCall
    \/ WaitReturn
    \/ \E s \in Services : RunCheckLatest(s)
    \/ \E s \in Services : RunCheckProbe(s)
    \/ \E s \in Services : RunCheckInsert(s)
    \/ \E s \in Services : RunCheckCallback(s)
    \/ \E s \in Services : CallbackReturn(s)
    \/ \E s \in Services : TickerFire(s)
    \/ \E s \in Services : LoopTick(s)
    \/ \E s \in Services : LoopExit(s)
    \/ \E s \in Services : NotifyLock(s)
    \/ \E s \in Services : NotifyCheck(s)
    \/ \E s \in Services : NotifyUpdate(s)
    \/ \E i \in 1..Len(sends) : Send(i)
    \/ ClockTick

Spec == Init /\ [][Next]_vars

(***************************************************************************)
(* The scheduler alone, as scheduler.New leaves it (no result callback),   *)
(* with two configured services and the store.                             *)
(***************************************************************************)
InitSched ==
    /\ AlerterInit
    /\ cooldown = 0
    /\ services = {"a", "b"}
    /\ SchedulerIdle
    /\ NoOperation

\* The clock of the two-service system advances, within its own horizon.
ClockTickSched == now < MaxTimeSched /\ ClockTick

NextSched ==
    \/ Start
    \/ Cancel
    \/ WaitCall
    \/ WaitReturn
    \/ \E s \in Services : RunCheckLatest(s)
    \/ \E s \in Services : RunCheckProbe(s)
    \/ \E s \in Services : RunCheckInsert(s)
    \/ \E s \in Services : RunCheckCallback(s)
    \/ \E s \in Services : TickerFire(s)
    \/ \E s \in Services : LoopTick(s)
    \/ \E s \in Services : LoopExit(s)
    \/ ClockTickSched

SpecSched == InitSched /\ [][NextSched]_vars

(***************************************************************************)
(* The wired system under the scheduling of the Go runtime: a goroutine    *)
(* that can take its next step takes it (every store call, Check and       *)
(* callback returns), the clock advances, a select with ctx.Done() ready   *)
(* over and over picks it in the end, and a Wait whose counter is zero     *)
(* returns. Nothing makes a ticker deliver a tick: the interval is any.    *)
(* The webhook is configured with a cooldown, so that Notify both          *)
(* dispatches and suppresses.                                              *)
(***************************************************************************)
InitLive == Init /\ cooldown = MaxCooldown

LoopStep(s) ==
    \/ RunCheckLatest(s)
    \/ RunCheckProbe(s)
    \/ RunCheckInsert(s)
    \/ RunCheckCallback(s)
    \/ NotifyLock(s)
    \/ NotifyCheck(s)
    \/ NotifyUpdate(s)
    \/ CallbackReturn(s)

Fairness ==
    /\ \A s \in Services : WF_vars(LoopStep(s))
    /\ \A s \in Services : SF_vars(LoopExit(s))
    /\ WF_vars(WaitReturn)
    /\ WF_vars(ClockTick)

SpecLive == InitLive /\ [][Next]_vars /\ Fairness

(***************************************************************************)
(* Properties of the Alerter                                               *)
(***************************************************************************)
SendFailures == SendOutcomes \ {"delivered"}
HasReturned(t) == npc[t] = "idle" /\ call[t].outcome # "nocall"
IsTransition(c) == c.prev # None /\ c.status # c.prev
Acts(t) == call'[t] # call[t] \/ npc'[t] # npc[t]
SendsFor(svc) == {i \in 1..Len(sends) : sends[i].svc = svc}

\* C1: a Notify call whose previous status is present and differs from the
\* result's status, and which at its cooldown check finds no notification of
\* that service dispatched less than cooldown ago, has dispatched exactly one
\* send when it returns.
C1_ExactlyOneWhenEligible ==
    \A t \in Threads :
        (HasReturned(t) /\ IsTransition(call[t]) /\ call[t].elig)
            => (call[t].nsent = 1 /\ call[t].outcome = "dispatched")

C1_Witness ==
    \E t \in Threads :
        /\ HasReturned(t) /\ IsTransition(call[t]) /\ call[t].elig
        /\ call[t].nsent = 1
        /\ \E i \in SendsFor(call[t].svc) : sends[i].at < now

\* C2: any two notifications dispatched for the same service were dispatched
\* at times at least cooldown apart.
C2_DispatchesCooldownApart ==
    \A i, j \in 1..Len(sends) :
        (i < j /\ sends[i].svc = sends[j].svc) => sends[j].at - sends[i].at >= cooldown

\* two transitions of one service inside one window: one sent, one suppressed
C2_Witness ==
    \E t \in Threads :
        /\ cooldown > 0
        /\ HasReturned(t) /\ call[t].outcome = "suppressed"
        /\ Cardinality(SendsFor(call[t].svc)) = 1

\* C3: no step of a Notify call whose previous status is absent or equal to
\* the result's status dispatches a send or changes the cooldown map.
C3_NoTransitionNoEffect ==
    [][\A t \in Threads :
          (Acts(t) /\ ~IsTransition(call'[t]))
              => (sends' = sends /\ lastAlert' = lastAlert /\ HasReturned(t)')]_vars

\* a non-transition call returned while the service was inside and outside its cooldown
C3_Witness ==
    \E t \in Threads :
        /\ HasReturned(t) /\ ~IsTransition(call[t])
        /\ call[t].svc \in DOMAIN lastAlert
        /\ call[t].prev = call[t].status

\* C4: the read of the last-alert time, the comparison and the update are one
\* critical section: a thread between them holds the mutex, and a thread that
\* passed the check still finds the cooldown elapsed when it updates.
C4_CheckAndUpdateAtomic ==
    \A t \in Threads :
        /\ npc[t] \in {"check", "update"} => mu = t
        /\ npc[t] = "update" =>
               ~(call[t].svc \in DOMAIN lastAlert
                   /\ now - lastAlert[call[t].svc] < cooldown)

\* two concurrent transitions of one service: one inside, one at the lock
C4_Witness ==
    \E t, u \in Threads :
        /\ t # u /\ cooldown > 0
        /\ npc[t] = "update" /\ npc[u] = "lock"
        /\ call[t].svc = call[u].svc

\* C5: the last-alert time of a service changes only in the update of a call
\* for that very service, and a call is suppressed only when a notification
\* of its own service was dispatched less than cooldown ago.
C5_CooldownPerService ==
    [][/\ \A b \in DOMAIN lastAlert' :
              (b \notin DOMAIN lastAlert \/ lastAlert'[b] # lastAlert[b])
                  => \E t \in Threads : npc[t] = "update" /\ Acts(t) /\ call[t].svc = b
       /\ DOMAIN lastAlert \subseteq DOMAIN lastAlert'
       /\ \A t \in Threads :
              (Acts(t) /\ call'[t].outcome = "suppressed")
                  => \E i \in SendsFor(call[t].svc) : now - sends[i].at < cooldown]_vars

\* two services notified inside the same window
C5_Witness ==
    \E i, j \in 1..Len(sends) :
        /\ sends[i].svc # sends[j].svc
        /\ sends[j].at - sends[i].at < cooldown
        /\ sends[j].at >= sends[i].at

\* C6: the step that suppresses a transition leaves the cooldown map as it was.
C6_SuppressionKeepsLastAlert ==
    [][\A t \in Threads :
          (Acts(t) /\ call'[t].outcome = "suppressed") => lastAlert' = lastAlert]_vars

C6_Witness ==
    \E t \in Threads :
        /\ HasReturned(t) /\ call[t].outcome = "suppressed"
        /\ lastAlert[call[t].svc] < now

\* C7: in the wired system a notification is dispatched for a probe only if
\* the probe's status differs from the status of the immediately preceding
\* probe of the same service.
C7_OnlyOnRealTransition ==
    \A s \in Services :
        (lpc[s] = "notify" /\ call[s].outcome = "dispatched")
            => (last[s].prev \in Statuses /\ last[s].status # last[s].prev)

\* C8: in the wired system, when a probe's status differs from the status of
\* the immediately preceding probe of the service and no webhook of the
\* service was dispatched less than cooldown ago, Notify has dispatched a
\* webhook for the probe when it returns.
C8_EveryChangeNotified ==
    \A s \in Services :
        (/\ lpc[s] = "notify" /\ HasReturned(s)
         /\ last[s].prev \in Statuses /\ last[s].status # last[s].prev
         /\ call[s].elig)
            => call[s].outcome = "dispatched"

\* C9: a loop inside the callback can always take its next step unless it is
\* waiting for the mutex: no step of Notify, and no return from it, waits for
\* a send task, whatever the send tasks are doing.
NotifyStep(s) == NotifyLock(s) \/ NotifyCheck(s) \/ NotifyUpdate(s) \/ CallbackReturn(s)
C9_NotifyNeverWaitsForSink ==
    \A s \in Services :
        /\ lpc[s] = "callback" => ENABLED RunCheckCallback(s)
        /\ (lpc[s] = "notify" /\ ~(npc[s] = "lock" /\ mu # None)) => ENABLED NotifyStep(s)

\* the loop is in a later probe while the send of an earlier result is unfinished
C9_Witness ==
    \E s \in Services : \E i \in SendsFor(s) :
        /\ sends[i].st = "spawned"
        /\ lpc[s] = "insert"
        /\ cur[s].at > sends[i].at

\* C10: a send that fails changes neither the cooldown map nor the mutex nor
\* any caller, and a transition checked inside the window of a failed send is
\* suppressed.
C10_FailureKeepsCooldown ==
    [][/\ (\E i \in 1..Len(sends) :
               sends[i].st \notin SendFailures /\ sends'[i].st \in SendFailures)
           => (lastAlert' = lastAlert /\ mu' = mu /\ npc' = npc /\ call' = call)
       /\ \A t \in Threads :
              (npc[t] = "check" /\ Acts(t)
                 /\ \E i \in SendsFor(call[t].svc) :
                        sends[i].st \in SendFailures /\ now - sends[i].at < cooldown)
                  => call'[t].outcome = "suppressed"]_vars

\* a transition is about to be checked inside the window of a failed send
C10_Witness ==
    \E t \in Threads :
        /\ npc[t] = "check"
        /\ \E i \in SendsFor(call[t].svc) :
               sends[i].st \in SendFailures /\ now - sends[i].at < cooldown

(***************************************************************************)
(* Properties of the Scheduler                                             *)
(***************************************************************************)
Running == {"latest", "check", "insert", "callback", "notify", "select"}
InProbe == {"latest", "check", "insert", "callback", "notify"}
RowsOf(s) == {r \in checks : r.service = s}

\* The first runCheck of the loop of s has called InsertCheck.
FirstInsertCalled(s) ==
    last[s].status # None /\ ~(lpc[s] = "insert" /\ ticker[s] = "none")

\* C11: a loop never waits in its select before it has run a complete probe
\* (the ticker does not even exist until then), and once Start has been
\* called every service that got a loop has its first result passed to
\* InsertCheck, whether or not a tick is ever delivered.
C11_ImmediateFirstProbe ==
    /\ [](\A s \in Services :
             /\ (lpc[s] \in InProbe /\ ~FirstInsertCalled(s)) => ticker[s] = "none"
             /\ lpc[s] = "select" => (FirstInsertCalled(s) /\ ticker[s] # "none"))
    /\ [](started =>
             <>(\A s \in services : lpc[s] = "skipped" \/ FirstInsertCalled(s)))

\* the first result is stored and no ticker has been created yet
C11_Witness ==
    \E s \in Services :
        /\ lpc[s] = "callback" /\ ticker[s] = "none"
        /\ RowsOf(s) # {}
        /\ now > 0

\* C12: once the context is cancelled no loop goes from its select into a
\* further runCheck, and no row is added to the store.
C12_NoProbeAfterCancel ==
    [][ctxDone =>
          /\ \A s \in Services : ~(lpc[s] = "select" /\ lpc'[s] = "latest")
          /\ checks' = checks]_vars

\* C13: Wait has returned only if no loop spawned by Start is still running:
\* every service is unscheduled, skipped by Start, or its loop has exited.
C13_WaitJoinsAllLoops ==
    waitpc = "returned" => \A s \in Services : lpc[s] \notin Running

\* Wait returned after two loops had exited, one of them after a later probe
C13_Witness ==
    /\ waitpc = "returned"
    /\ \A s \in services : lpc[s] = "stopped"
    /\ Cardinality(services) = 2
    /\ \E s \in services : ticker[s] = "stopped" /\ last[s].at > 0

\* C14: under fair scheduling, from the cancellation on every loop ends up
\* exited for good, and a Wait that is blocked returns.
C14_CancelDrains ==
    [](ctxDone => <>[](/\ \A s \in Services : lpc[s] \notin Running
                       /\ waitpc # "waiting"))

\* the loop exited after several probes and a dispatched callback; Wait returned
C14_Witness ==
    /\ ctxDone /\ waitpc = "returned"
    /\ \E s \in services :
           lpc[s] = "stopped" /\ last[s].at > 0 /\ SendsFor(s) # {}

\* C15: the loop of a service enters runCheck only from Start or from its
\* select, with no runCheck of that loop in progress (its locals released,
\* its callback returned); a tick delivered while a runCheck is in progress
\* changes nothing in that runCheck and starts none.
C15_ProbesSequential ==
    [][\A s \in Services :
          /\ (lpc[s] # "latest" /\ lpc'[s] = "latest")
                 => /\ lpc[s] \in {"unstarted", "select"}
                    /\ cur[s] = NoProbe /\ npc[s] = "idle" /\ call[s] = NoCall
          /\ (lpc[s] \in InProbe /\ ticker[s] = "armed" /\ ticker'[s] = "ticked")
                 => (lpc'[s] = lpc[s] /\ cur'[s] = cur[s])]_vars

\* a tick is waiting while a later probe of the loop is between Check and InsertCheck
C15_Witness ==
    \E s \in Services :
        /\ ticker[s] = "ticked" /\ lpc[s] = "insert"
        /\ last[s].prev # None

\* The moves of a loop: Start, then runCheck step by step, then the select.
ProbeOrder ==
    {<<"unstarted", "latest">>, <<"unstarted", "skipped">>,
     <<"latest", "check">>, <<"check", "insert">>, <<"insert", "callback">>,
     <<"callback", "notify">>, <<"callback", "select">>, <<"notify", "select">>,
     <<"select", "latest">>, <<"select", "stopped">>}

\* C16: a loop goes through a probe in the order LatestCheck, Check,
\* InsertCheck, callback; what LatestCheck returned before Check is kept
\* through Check and InsertCheck; a registered callback is entered at one
\* step only, after the single InsertCheck call, with the probe's status and
\* the status read at the start (None if none was read).
C16_ProbeStepOrder ==
    [][\A s \in Services :
          /\ lpc'[s] # lpc[s] => <<lpc[s], lpc'[s]>> \in ProbeOrder
          /\ (lpc[s] = "latest" /\ lpc'[s] = "check")
                 => [status |-> cur'[s].prev, err |-> cur'[s].readErr] \in LatestCheck(s)
          /\ (lpc[s] \in {"check", "insert"}) => cur'[s].prev = cur[s].prev
          /\ (lpc[s] = "callback" /\ lpc'[s] # lpc[s])
                 => IF onResult = None
                    THEN lpc'[s] = "select" /\ call'[s] = NoCall
                    ELSE /\ lpc'[s] = "notify"
                         /\ cur[s].inserts = 1
                         /\ call'[s].svc = s
                         /\ call'[s].status = cur[s].status
                         /\ call'[s].prev = cur[s].prev
          /\ (call[s] = NoCall /\ call'[s] # NoCall) => lpc[s] = "callback"]_vars

\* the callback got a previous status that differs from the row the same
\* probe has just stored
C16_Witness ==
    \E s \in Services :
        /\ lpc[s] = "notify"
        /\ call[s].prev \in Statuses /\ call[s].prev # call[s].status
        /\ InsertRow(s, cur[s].status, cur[s].at) \in LatestRows(s)

\* C17: once Start has been called every configured service either has a
\* loop or was skipped because its factory call failed, whatever happened
\* to the other services; the WaitGroup counts exactly the loops that have
\* not exited; a skipped service has no ticker, no probe and no row.
C17_FactoryFailureSkipsOneService ==
    /\ started => \A s \in services : lpc[s] # "unstarted"
    /\ wg = Cardinality({s \in Services : lpc[s] \in Running})
    /\ \A s \in Services :
           lpc[s] = "skipped"
               => (RowsOf(s) = {} /\ cur[s] = NoProbe /\ last[s] = NoProbe
                     /\ ticker[s] = "none")

\* the factory failed for the first service; the second was scheduled and
\* probed, and Wait returned after that one loop
C17_Witness ==
    /\ lpc["a"] = "skipped" /\ lpc["b"] = "stopped"
    /\ RowsOf("b") # {}
    /\ waitpc = "returned"

\* The previous runCheck of the loop of s failed to store its result.
LastWriteFailed(s) ==
    last[s].status # None /\ InsertRow(s, last[s].status, last[s].at) \notin checks

\* C18: a loop leaves Running only from its select and only when the context
\* is cancelled; whatever a probe returned, read or failed to store, the loop
\* comes back to its select with its ticker alive, and there a delivered tick
\* can be taken for the next probe.
C18_OnlyCancellationStops ==
    /\ [][\A s \in Services :
             (lpc[s] \in Running /\ lpc'[s] \notin Running)
                 => (lpc[s] = "select" /\ ctxDone /\ lpc'[s] = "stopped")]_vars
    /\ [](\A s \in Services :
             lpc[s] = "select"
                 => /\ ticker[s] \in {"armed", "ticked"}
                    /\ (ticker[s] = "ticked" /\ last[s].at < MaxTime)
                           => ENABLED LoopTick(s))

\* the previous probe returned Down and its result could not be stored; the
\* loop took the next tick, and its new probe goes on after a failed read
C18_Witness ==
    \E s \in Services :
        /\ ~ctxDone /\ lpc[s] = "check" /\ cur[s].readErr
        /\ last[s].status = StatusDown /\ LastWriteFailed(s)

\* The runCheck in progress in the loop of s has no row of its own in the store.
CurNotStored(s) == InsertRow(s, cur[s].status, cur[s].at) \notin checks

\* C19: every InsertCheck step of a runCheck is its only one and leads to the
\* callback; when the write failed, a registered callback is still entered
\* with the probe's status and the status read before, and its return takes
\* the loop to its select with the ticker alive.
C19_FailedWriteNotRetried ==
    [][\A s \in Services :
          /\ (lpc[s] = "insert" /\ (lpc'[s] # lpc[s] \/ cur'[s] # cur[s]))
                 => (lpc'[s] = "callback" /\ cur'[s].inserts = 1)
          /\ (lpc[s] = "callback" /\ CurNotStored(s) /\ onResult # None
                 /\ lpc'[s] # lpc[s])
                 => /\ lpc'[s] = "notify"
                    /\ call'[s].status = cur[s].status
                    /\ call'[s].prev = cur[s].prev
          /\ (lpc[s] \in {"callback", "notify"} /\ CurNotStored(s) /\ lpc'[s] = "select")
                 => ticker'[s] \in {"armed", "ticked"}]_vars

\* a webhook was dispatched for a result whose write failed with the context alive
C19_Witness ==
    \E s \in Services :
        /\ ~ctxDone /\ lpc[s] = "notify" /\ CurNotStored(s)
        /\ HasReturned(s) /\ call[s].outcome = "dispatched"

\* C20: a runCheck always goes from LatestCheck to Check; when LatestCheck
\* returned an error the previous status is None, Check and the single
\* InsertCheck follow, and a registered callback is entered with previous
\* status None and returns at once, as for a service with no stored result.
C20_ReadErrorIsNoPrevious ==
    /\ [](\A s \in Services : cur[s].readErr => cur[s].prev = None)
    /\ [][\A s \in Services :
             /\ (lpc[s] = "latest" /\ lpc'[s] # lpc[s]) => lpc'[s] = "check"
             /\ (cur[s].readErr /\ lpc'[s] # lpc[s])
                    => /\ lpc[s] = "check"
                           => (lpc'[s] = "insert" /\ cur'[s].status \in Statuses)
                       /\ lpc[s] = "insert"
                           => (lpc'[s] = "callback" /\ cur'[s].inserts = 1)
                       /\ (lpc[s] = "callback" /\ onResult # None)
                           => /\ lpc'[s] = "notify"
                              /\ call'[s] = Returned(Entered(s, cur[s].status, None),
                                                      "skipped")]_vars

\* the store holds an earlier result of the service and has taken the new
\* one, yet the callback was entered without a previous status
C20_Witness ==
    \E s \in Services :
        /\ ~ctxDone /\ lpc[s] = "notify" /\ cur[s].readErr
        /\ HasReturned(s) /\ call[s].outcome = "skipped" /\ call[s].prev = None
        /\ ~CurNotStored(s)
        /\ \E r \in RowsOf(s) : r.status # cur[s].status

Return(v) == [outcome |-> "returned", value |-> v]
Panic == [outcome |-> "panic"]

Target == "t"
Millisecond == 1000
Elapsed == {Millisecond, 3 * Millisecond}
Errors == {None, "", "connection refused"}

\* fmt's %q of a string without special characters
Quote(s) == "\"" \o s \o "\""

\* result := CheckResult{ServiceName: c.svc.Name, CheckedAt: start}
CheckResult(e) ==
    [ServiceName |-> e.name, Status |-> None, Error |-> "", ResponseTime |-> e.elapsed]
Down(e, text) == Return([CheckResult(e) EXCEPT !.Status = StatusDown, !.Error = text])
Up(e) == Return([CheckResult(e) EXCEPT !.Status = StatusUp])

\* (*url.Error).Error(), the error of http.Client.Do
URLError(inner) == "Get " \o Quote(Target) \o ": " \o inner

HTTPInputs ==
    [op : {"http"}, name : Services, elapsed : Elapsed, expected : {0, 200, 201},
     reqErr : {None, "invalid URL"}, doErr : Errors, code : {200, 201, 404}]

httpCheckNoDefault(e) ==
    IF e.reqErr # None THEN Down(e, "creating request: " \o e.reqErr)
    ELSE IF e.doErr # None THEN Down(e, URLError(e.doErr))
    ELSE IF e.code # e.expected
         THEN Down(e, "expected status " \o ToString(e.expected)
                         \o ", got " \o ToString(e.code))
         ELSE Up(e)
httpCheck(e) ==
    LET expected == IF e.expected = 0 THEN 200 ELSE e.expected
    IN  IF e.reqErr # None THEN Down(e, "creating request: " \o e.reqErr)
        ELSE IF e.doErr # None THEN Down(e, URLError(e.doErr))
        ELSE IF e.code # expected
             THEN Down(e, "expected status " \o ToString(expected)
                             \o ", got " \o ToString(e.code))
             ELSE Up(e)

TCPInputs == [op : {"tcp"}, name : Services, elapsed : Elapsed, dialErr : Errors]

tcpCheck(e) ==
    IF e.dialErr # None
    THEN Down(e, "dial tcp " \o Target \o ": " \o e.dialErr)
    ELSE Up(e)

\* The output of the ping command, as a sequence of pieces of text: the
\* literal "time=", a digit, a dot, a blank, the literal "ms", and any text
\* in which none of these occurs.
MaxOut == 5
Digit == {"1", "5"}
Piece == {"time=", ".", " ", "ms", "x"} \cup Digit
Outputs == UNION {[1..n -> Piece] : n \in 0..MaxOut}
PingInputs ==
    [op : {"ping"}, name : Services, elapsed : Elapsed, execErr : {None},
     stdout : Outputs]
    \cup [op : {"ping"}, name : Services, elapsed : Elapsed,
          execErr : Errors \ {None}, stdout : {<< >>, <<"time=", "1", "ms">>}]

\* the position after the longest run of pieces of set S that starts at i
RECURSIVE SpanEnd(_, _, _)
SpanEnd(out, i, S) ==
    IF i <= Len(out) /\ out[i] \in S THEN SpanEnd(out, i + 1, S) ELSE i

\* rttRegex matched at position i: the text of its group, as the digits
\* before and after the optional dot; NoMatch (nil) without a match
NoMatch == [matched |-> FALSE]
MatchAt(out, i) ==
    IF i > Len(out) \/ out[i] # "time=" THEN NoMatch
    ELSE LET d1 == SpanEnd(out, i + 1, Digit)
             f0 == IF d1 <= Len(out) /\ out[d1] = "." THEN d1 + 1 ELSE d1
             d2 == SpanEnd(out, f0, Digit)
             ms == SpanEnd(out, d2, {" "})
         IN  IF d1 > i + 1 /\ ms <= Len(out) /\ out[ms] = "ms"
             THEN [matched |-> TRUE, whole |-> SubSeq(out, i + 1, d1 - 1),
                   frac |-> SubSeq(out, f0, d2 - 1)]
             ELSE NoMatch

\* rttRegex.FindSubmatch: the leftmost match
RECURSIVE FindFrom(_, _)
FindFrom(out, i) ==
    IF i > Len(out) THEN NoMatch
    ELSE IF MatchAt(out, i).matched THEN MatchAt(out, i)
    ELSE FindFrom(out, i + 1)
FindSubmatch(out) == FindFrom(out, 1)

DigitValue(d) == CASE d = "0" -> 0 [] d = "1" -> 1 [] d = "3" -> 3 [] d = "5" -> 5
RECURSIVE Pow10(_)
Pow10(n) == IF n = 0 THEN 1 ELSE 10 * Pow10(n - 1)
RECURSIVE WholeValue(_)
WholeValue(ds) ==
    IF ds = << >> THEN 0
    ELSE 10 * WholeValue(SubSeq(ds, 1, Len(ds) - 1)) + DigitValue(ds[Len(ds)])

\* time.Duration(ms * float64(time.Millisecond)) for the matched number
ParsedRTT(m) ==
    LET k == Len(m.frac)
    IN  WholeValue(m.whole) * Millisecond
           + (WholeValue(m.frac) * Millisecond) \div Pow10(k)

pingCheckElapsed(e) ==
    IF e.execErr # None THEN Down(e, "ping " \o Target \o ": " \o e.execErr)
    ELSE IF ~FindSubmatch(e.stdout).matched
         THEN Down(e, "could not parse RTT from ping output")
         ELSE Up(e)
pingCheck(e) ==
    IF e.execErr # None THEN Down(e, "ping " \o Target \o ": " \o e.execErr)
    ELSE LET matches == FindSubmatch(e.stdout)
         IN  IF ~matches.matched
             THEN Down(e, "could not parse RTT from ping output")
             ELSE Return([Up(e).value EXCEPT !.ResponseTime = ParsedRTT(matches)])

\* A docker checker has the client of newDockerChecker, which asks the
\* Docker socket, or a client given to NewDockerCheckerWithClient, which may
\* return any state (None is a nil pointer) with any error.
States == {None, "running", "stopped"}
DockerInputs ==
    [op : {"docker"}, name : Services, elapsed : Elapsed, client : {"injected"},
     state : States, err : Errors]
    \cup [op : {"docker"}, name : Services, elapsed : Elapsed, client : {"unix"},
          reqErr : {None, "invalid URL"}, doErr : Errors, code : {200, 404, 500},
          body : {"running", "stopped", "malformed"}]

unixInspectContainer(e) ==
    IF e.reqErr # None THEN [state |-> None, err |-> "creating request: " \o e.reqErr]
    ELSE IF e.doErr # None
         THEN [state |-> None, err |-> "querying docker socket: " \o URLError(e.doErr)]
    ELSE IF e.code = 404
         THEN [state |-> None, err |-> "container " \o Quote(Target) \o " not found"]
    ELSE IF e.code # 200
         THEN [state |-> None, err |-> "docker API returned status " \o ToString(e.code)]
    ELSE IF e.body = "malformed"
         THEN [state |-> None, err |-> "decoding docker response: unexpected EOF"]
    ELSE [state |-> e.body, err |-> None]

InspectContainer(e) ==
    IF e.client = "unix" THEN unixInspectContainer(e)
    ELSE [state |-> e.state, err |-> e.err]

NotRunning == "container " \o Quote(Target) \o " is not running"

dockerCheckIgnoresRunning(e) ==
    LET r == InspectContainer(e)
    IN  IF r.err # None THEN Down(e, r.err) ELSE Up(e)
dockerCheck(e) ==
    LET r == InspectContainer(e)
    IN  IF r.err # None THEN Down(e, r.err)
        ELSE IF r.state = None THEN Panic
        ELSE IF r.state # "running" THEN Down(e, NotRunning)
        ELSE Up(e)

HTTPCheck ==
    /\ env.op = "http" /\ ret = NoRet
    /\ ret' = httpCheck(env)
    /\ UNCHANGED <<avars, svars, env, cmd, lastOutcome>>
TCPCheck ==
    /\ env.op = "tcp" /\ ret = NoRet
    /\ ret' = tcpCheck(env)
    /\ UNCHANGED <<avars, svars, env, cmd, lastOutcome>>
PingCheck ==
    /\ env.op = "ping" /\ ret = NoRet
    /\ ret' = pingCheck(env)
    /\ UNCHANGED <<avars, svars, env, cmd, lastOutcome>>
DockerCheck ==
    /\ env.op = "docker" /\ ret = NoRet
    /\ ret' = dockerCheck(env)
    /\ UNCHANGED <<avars, svars, env, cmd, lastOutcome>>

InitChecker ==
    /\ AlerterInit /\ cooldown = 0
    /\ services = {}
    /\ SchedulerIdle
    /\ env \in HTTPInputs \cup TCPInputs \cup PingInputs \cup DockerInputs
    /\ ret = NoRet
    /\ cmd = NoCommand

NextChecker == HTTPCheck \/ TCPCheck \/ PingCheck \/ DockerCheck

SpecChecker == InitChecker /\ [][NextChecker]_vars

(***************************************************************************)
(* Configuration and wiring: config.Load, checker.New and runServe up to   *)
(* the start of the scheduler, each run on its own.  A duration text is a  *)
(* sequence of pieces: a sign, digits, the units "s" and "m", and "x" for  *)
(* any other text.  Configured durations are in seconds.                   *)
(***************************************************************************)
Second == 1
Minute == 60 * Second
MaxServices == 2

DurationDigit == {"0", "1", "3", "5"}
unitMap == [s |-> Second, m |-> Minute]
BadDuration == [ok |-> FALSE, d |-> 0]

\* the loop of time.ParseDuration: groups of digits followed by a unit
RECURSIVE ParseGroups(_)
ParseGroups(s) ==
    IF s = << >> THEN [ok |-> TRUE, d |-> 0]
    ELSE LET n == SpanEnd(s, 1, DurationDigit) - 1
         IN  IF n = 0 \/ n = Len(s) \/ s[n + 1] \notin DOMAIN unitMap THEN BadDuration
             ELSE LET rest == ParseGroups(SubSeq(s, n + 2, Len(s)))
                  IN  IF rest.ok
                      THEN [ok |-> TRUE,
                            d |-> WholeValue(SubSeq(s, 1, n)) * unitMap[s[n + 1]] + rest.d]
                      ELSE BadDuration

\* time.ParseDuration: an optional sign, then "0" alone or groups
ParseDuration(s) ==
    LET signed == s # << >> /\ s[1] \in {"-", "+"}
        neg == s # << >> /\ s[1] = "-"
        body == IF signed THEN Tail(s) ELSE s
    IN  IF body = <<"0">> THEN [ok |-> TRUE, d |-> 0]
        ELSE IF body = << >> THEN BadDuration
        ELSE LET g == ParseGroups(body)
             IN  IF g.ok THEN [ok |-> TRUE, d |-> IF neg THEN 0 - g.d ELSE g.d]
                 ELSE BadDuration

RECURSIVE Text(_)
Text(s) == IF s = << >> THEN "" ELSE Head(s) \o Text(Tail(s))

validTypes == {"http", "tcp", "ping", "docker"}
TypeStrings == validTypes \cup {"", "grpc"}

\* The services of a configuration file before validation (rawService).
ServiceTexts == {<< >>, <<"1", "s">>, <<"0", "s">>, <<"-", "5", "s">>, <<"5">>}
Base(n, ty) ==
    [Name |-> n, Type |-> ty, Target |-> Target, Interval |-> << >>, Timeout |-> << >>,
     ExpectedStatus |-> 0]
RawServices ==
    {Base(n, ty) : n \in {""} \cup Services, ty \in TypeStrings}
    \cup {[Base(n, "http") EXCEPT !.Target = ""] : n \in Services}
    \cup {[Base("a", "tcp") EXCEPT !.Interval = x] : x \in ServiceTexts}
    \cup {[Base("a", "tcp") EXCEPT !.Timeout = x] : x \in ServiceTexts}
    \cup {[Base("b", "http") EXCEPT !.ExpectedStatus = 201]}

\* A configuration file: missing, not YAML, or parsed into rawConfig.  An
\* omitted cooldown is not given; a given one is decoded by UnmarshalYAML.
Omitted == [given |-> FALSE]
Given(x) == [given |-> TRUE, text |-> x]
Cooldowns == {Omitted, Given(<<"5", "m">>), Given(<<"0", "s">>), Given(<<"x">>)}
Files ==
    [state : {"parsed"}, services : UNION {[1..n -> RawServices] : n \in 0..MaxServices},
     url : {"", "http://hook"}, cooldown : Cooldowns, address : {""}, path : {""}]
    \cup [state : {"missing", "malformed", "parsed"}, services : {<<Base("a", "http")>>},
          url : {"http://hook"}, cooldown : {Omitted}, address : {":9090"},
          path : {"x.db"}]

NoConfig == [nil |-> TRUE]
LoadError(text) == [cfg |-> NoConfig, err |-> text]

\* the validation of one raw service, given the names seen before it
ValidateServiceNoDuplicate(rs, i, names) ==
    IF rs.Name = "" THEN "service[" \o ToString(i - 1) \o "]: name is required"
    ELSE IF rs.Target = ""
         THEN "service " \o Quote(rs.Name) \o ": target is required"
    ELSE IF rs.Type \notin validTypes
         THEN "service " \o Quote(rs.Name) \o ": invalid type " \o Quote(rs.Type)
                 \o " (must be http, tcp, ping, or docker)"
    ELSE None
ValidateService(rs, i, names) ==
    IF rs.Name = "" THEN "service[" \o ToString(i - 1) \o "]: name is required"
    ELSE IF rs.Name \in names THEN "duplicate service name " \o Quote(rs.Name)
    ELSE IF rs.Target = ""
         THEN "service " \o Quote(rs.Name) \o ": target is required"
    ELSE IF rs.Type \notin validTypes
         THEN "service " \o Quote(rs.Name) \o ": invalid type " \o Quote(rs.Type)
                 \o " (must be http, tcp, ping, or docker)"
    ELSE None

\* the Service built from a valid raw service, or the error of a duration
BuildService(rs) ==
    LET iv == IF rs.Interval = << >> THEN [ok |-> TRUE, d |-> 30 * Second]
              ELSE ParseDuration(rs.Interval)
        to == IF rs.Timeout = << >> THEN [ok |-> TRUE, d |-> 5 * Second]
              ELSE ParseDuration(rs.Timeout)
    IN  IF ~iv.ok
        THEN [err |-> "service " \o Quote(rs.Name) \o ": invalid interval "
                         \o Quote(Text(rs.Interval))]
        ELSE IF ~to.ok
        THEN [err |-> "service " \o Quote(rs.Name) \o ": invalid timeout "
                         \o Quote(Text(rs.Timeout))]
        ELSE [err |-> None,
              svc |-> [Name |-> rs.Name, Type |-> rs.Type, Target |-> rs.Target,
                       Interval |-> iv.d, Timeout |-> to.d,
                       ExpectedStatus |-> IF rs.Type = "http" /\ rs.ExpectedStatus = 0
                                          THEN 200 ELSE rs.ExpectedStatus]]

\* the loop of Load over raw.Services from index i on
RECURSIVE LoadServices(_, _, _, _)
LoadServices(raw, i, names, acc) ==
    IF i > Len(raw) THEN [err |-> None, services |-> acc]
    ELSE LET bad == ValidateService(raw[i], i, names)
         IN  IF bad # None THEN [err |-> bad, services |-> << >>]
             ELSE LET b == BuildService(raw[i])
                  IN  IF b.err # None THEN [err |-> b.err, services |-> << >>]
                      ELSE LoadServices(raw, i + 1, names \cup {raw[i].Name},
                                        Append(acc, b.svc))

Load(f) ==
    IF f.state = "missing" THEN LoadError("reading config: no such file or directory")
    ELSE IF f.state = "malformed" THEN LoadError("parsing config: yaml: did not find expected key")
    ELSE IF f.cooldown.given /\ ~ParseDuration(f.cooldown.text).ok
         THEN LoadError("parsing config: time: invalid duration "
                           \o Quote(Text(f.cooldown.text)))
    ELSE IF Len(f.services) = 0 THEN LoadError("at least one service must be configured")
    ELSE LET r == LoadServices(f.services, 1, {}, << >>)
         IN  IF r.err # None THEN LoadError(r.err)
             ELSE [err |-> None,
                   cfg |-> [nil |-> FALSE,
                            Services |-> r.services,
                            Alerts |-> [Webhook |->
                                [URL |-> f.url,
                                 Cooldown |-> IF f.cooldown.given
                                              THEN ParseDuration(f.cooldown.text).d
                                              ELSE 0]],
                            Server |-> [Address |-> IF f.address = "" THEN ":8080"
                                                    ELSE f.address],
                            Storage |-> [Path |-> IF f.path = "" THEN "servprobe.db"
                                                  ELSE f.path]]]

\* checker.New: the variant of the service's type
NewWithoutDocker(svc) ==
    CASE svc.Type = "http" -> [checker |-> "http", err |-> None]
      [] svc.Type = "tcp" -> [checker |-> "tcp", err |-> None]
      [] svc.Type = "ping" -> [checker |-> "ping", err |-> None]
      [] OTHER -> [checker |-> None, err |-> "unknown checker type " \o Quote(svc.Type)]
New(svc) ==
    CASE svc.Type = "http" -> [checker |-> "http", err |-> None]
      [] svc.Type = "tcp" -> [checker |-> "tcp", err |-> None]
      [] svc.Type = "ping" -> [checker |-> "ping", err |-> None]
      [] svc.Type = "docker" -> [checker |-> "docker", err |-> None]
      [] OTHER -> [checker |-> None, err |-> "unknown checker type " \o Quote(svc.Type)]

\* runServe up to the start of the loops: Load, storage.Open, the Alerter
\* when a webhook URL is configured, the factory call of Start for each
\* service, and time.NewTicker in each loop, which panics unless the
\* interval is positive.
Serving(alerter, made) == [outcome |-> "serving", alerter |-> alerter, made |-> made]
runServe(e) ==
    LET l == Load(e.file)
    IN  IF l.err # None THEN Return([err |-> "loading config: " \o l.err])
        ELSE IF e.openErr # None THEN Return([err |-> "opening database: " \o e.openErr])
        ELSE LET cfg == l.cfg
                 alerter == IF cfg.Alerts.Webhook.URL # ""
                            THEN [built |-> TRUE, cooldown |-> cfg.Alerts.Webhook.Cooldown]
                            ELSE [built |-> FALSE]
                 made == [i \in 1..Len(cfg.Services) |-> New(cfg.Services[i])]
             IN  IF \E i \in 1..Len(cfg.Services) :
                        made[i].err = None /\ cfg.Services[i].Interval <= 0
                 THEN Panic
                 ELSE Serving(alerter, made)

LoadInputs == [op : {"Load"}, file : Files]
NewInputs == [op : {"New"}, svc : {Base(n, ty) : n \in Services, ty \in TypeStrings}]
RunServeInputs ==
    [op : {"runServe"}, file : Files, openErr : {None}]
    \cup [op : {"runServe"}, file : {f \in Files : f.address # ""},
          openErr : {"unable to open database file"}]

LoadConfig ==
    /\ env.op = "Load" /\ ret = NoRet
    /\ ret' = Return(Load(env.file))
    /\ UNCHANGED <<avars, svars, env, cmd, lastOutcome>>
CheckerNew ==
    /\ env.op = "New" /\ ret = NoRet
    /\ ret' = Return(New(env.svc))
    /\ UNCHANGED <<avars, svars, env, cmd, lastOutcome>>
RunServe ==
    /\ env.op = "runServe" /\ ret = NoRet
    /\ ret' = runServe(env)
    /\ UNCHANGED <<avars, svars, env, cmd, lastOutcome>>

InitConfig ==
    /\ AlerterInit /\ cooldown = 0
    /\ services = {}
    /\ SchedulerIdle
    /\ env \in LoadInputs \cup NewInputs \cup RunServeInputs
    /\ ret = NoRet
    /\ cmd = NoCommand

NextConfig == LoadConfig \/ CheckerNew \/ RunServe

SpecConfig == InitConfig /\ [][NextConfig]_vars

(***************************************************************************)
(* The one-off check command: runChecks, its goroutines (one per service   *)
(* of the configuration it is given) and its WaitGroup.  cmd.order is the  *)
(* order in which the goroutines finished.                                 *)
(***************************************************************************)
MaxCmdServices == 2

CmdServices == {Base(n, ty) : n \in Services, ty \in {"http", "docker", "grpc"}}
RunChecksInputs ==
    [op : {"runChecks"},
     services : UNION {[1..n -> CmdServices] : n \in 0..MaxCmdServices}]

\* results := make([]result, len(cfg.Services)): zero values
ZeroResult == [ServiceName |-> "", Status |-> "", Error |-> "", ResponseTime |-> 0]

\* runChecks, lines 30-51, one iteration: wg.Add(1) and the go statement
CmdSpawn ==
    /\ cmd.pc = "spawn"
    /\ cmd' = [cmd EXCEPT !.wg = @ + 1,
                          !.g[cmd.i] = "new",
                          !.i = @ + 1,
                          !.pc = IF cmd.i = Len(env.services) THEN "wait" ELSE "spawn"]
    /\ UNCHANGED <<avars, svars, env, ret, lastOutcome>>

\* the goroutine of service i, lines 34-46: checker.New; on an error the
\* slot gets a Down result, the goroutine returns and wg.Done() runs
Finished(k, r) ==
    [cmd EXCEPT !.results[k] = r, !.g[k] = "done", !.wg = @ - 1,
                !.order = Append(@, k)]
GoNew(k) ==
    /\ cmd.pc # None
    /\ k \in 1..Len(cmd.g) /\ cmd.g[k] = "new"
    /\ LET made == New(env.services[k])
       IN  IF made.err # None
           THEN cmd' = Finished(k, [ServiceName |-> env.services[k].Name,
                                    Status |-> StatusDown,
                                    Error |-> "creating checker: " \o made.err,
                                    ResponseTime |-> 0])
           ELSE cmd' = [cmd EXCEPT !.g[k] = "check"]
    /\ UNCHANGED <<avars, svars, env, ret, lastOutcome>>

\* the goroutine of service i, lines 47-49: c.Check(ctx) with the service's
\* timeout returns an Up or a Down result, which goes into slot i
GoCheck(k) ==
    /\ cmd.pc # None
    /\ k \in 1..Len(cmd.g) /\ cmd.g[k] = "check"
    /\ \E st \in Statuses :
           cmd' = Finished(k, [ServiceName |-> env.services[k].Name, Status |-> st,
                               Error |-> IF st = StatusUp THEN "" ELSE "connection refused",
                               ResponseTime |-> Millisecond])
    /\ UNCHANGED <<avars, svars, env, ret, lastOutcome>>

\* runChecks, line 52: wg.Wait() returns once the counter is zero
CmdWaitNoJoin ==
    /\ cmd.pc = "wait"
    /\ cmd' = [cmd EXCEPT !.pc = "print"]
    /\ UNCHANGED <<avars, svars, env, ret, lastOutcome>>
CmdWait ==
    /\ cmd.pc = "wait"
    /\ cmd.wg = 0
    /\ cmd' = [cmd EXCEPT !.pc = "print"]
    /\ UNCHANGED <<avars, svars, env, ret, lastOutcome>>

\* runChecks, lines 54-78: one row per slot of results, in index order, and
\* an error unless every slot is Up
Row(svc, r) ==
    [service |-> svc.Name, type |-> svc.Type, status |-> r.Status,
     response |-> IF r.ResponseTime > 0
                  THEN ToString(r.ResponseTime \div Millisecond) \o "ms" ELSE "-",
     error |-> r.Error]
CmdPrint ==
    /\ cmd.pc = "print"
    /\ cmd' = [cmd EXCEPT !.pc = "done",
                          !.out = [k \in 1..Len(cmd.results) |->
                                      Row(env.services[k], cmd.results[k])]]
    /\ ret' = IF \E k \in 1..Len(cmd.results) : cmd.results[k].Status # StatusUp
              THEN Return("one or more services are down")
              ELSE Return(None)
    /\ UNCHANGED <<avars, svars, env, lastOutcome>>

InitCmd ==
    /\ AlerterInit /\ cooldown = 0
    /\ services = {}
    /\ SchedulerIdle
    /\ env \in RunChecksInputs
    /\ ret = NoRet
    /\ cmd = [pc |-> IF Len(env.services) = 0 THEN "wait" ELSE "spawn",
              i |-> 1, wg |-> 0,
              g |-> [k \in 1..Len(env.services) |-> "none"],
              results |-> [k \in 1..Len(env.services) |-> ZeroResult],
              order |-> << >>, out |-> << >>]

NextCmd ==
    \/ CmdSpawn
    \/ \E k \in 1..MaxCmdServices : GoNew(k)
    \/ \E k \in 1..MaxCmdServices : GoCheck(k)
    \/ CmdWait
    \/ CmdPrint

SpecCmd == InitCmd /\ [][NextCmd]_vars

\* Check has returned / the checker of the operation
Checked(op) == env.op = op /\ ret # NoRet
Result == ret.value

\* C22: Check of every variant returns, whatever the underlying operation
\* gives: it never panics.
C22_CheckNeverPanics == ret.outcome # "panic"

\* C23: a returned CheckResult has status up or down, the name of the
\* configured service, and an error text that is empty exactly when the
\* status is up.
C23_ErrorEmptyIffUp ==
    ret.outcome = "returned" =>
        /\ Result.Status \in Statuses
        /\ Result.ServiceName = env.name
        /\ Result.Error = "" <=> Result.Status = StatusUp

\* C24: the HTTP checker returns Up exactly when the request was built, the
\* transport gave a response and its code is the expected status (200 for an
\* expected status of 0); otherwise it returns Down with a non-empty error.
C24_HTTPUpIffExpectedStatus ==
    Checked("http") =>
        LET ok == /\ env.reqErr = None
                  /\ env.doErr = None
                  /\ env.code = (IF env.expected = 0 THEN 200 ELSE env.expected)
        IN  /\ ret.outcome = "returned"
            /\ Result.Status = StatusUp <=> ok
            /\ ~ok => Result.Status = StatusDown /\ Result.Error # ""

\* the service leaves expected_status at 0 and the target answers 200: Up
C24_Witness ==
    /\ Checked("http")
    /\ env.expected = 0 /\ env.code = 200
    /\ Result.Status = StatusUp

\* s is a number of the pattern: digits, then possibly a dot and digits
IsNumber(s) ==
    \E a \in 1..Len(s) :
        /\ \A i \in 1..a : s[i] \in Digit
        /\ \/ a = Len(s)
           \/ s[a + 1] = "." /\ \A i \in (a + 2)..Len(s) : s[i] \in Digit
\* the places <<i, j, k>> of the output where time=<number> ms occurs:
\* "time=" at i, the number up to j, blanks, "ms" at k
Occurrences(out) ==
    {m \in (1..Len(out)) \X (1..Len(out)) \X (1..Len(out)) :
        /\ m[1] < m[2] /\ m[2] < m[3]
        /\ out[m[1]] = "time="
        /\ IsNumber(SubSeq(out, m[1] + 1, m[2]))
        /\ \A i \in (m[2] + 1)..(m[3] - 1) : out[i] = " "
        /\ out[m[3]] = "ms"}
\* the value of a number in microseconds, when it counts milliseconds
NumberValue(s) ==
    LET a == SpanEnd(s, 1, Digit) - 1
    IN  ParsedRTT([whole |-> SubSeq(s, 1, a), frac |-> SubSeq(s, a + 2, Len(s))])

\* C25: the ping checker returns Up exactly when the executor gave no error
\* and its output has an occurrence of time=<number> ms; the response time
\* of an Up result is the number of the first occurrence, and every other
\* result is Down with a non-empty error.
C25_PingUpIffRTTParsed ==
    Checked("ping") =>
        LET occ == Occurrences(env.stdout)
            ok == env.execErr = None /\ occ # {}
        IN  /\ ret.outcome = "returned"
            /\ Result.Status = StatusUp <=> ok
            /\ ok => \E m \in occ :
                        /\ \A o \in occ : m[1] <= o[1]
                        /\ Result.ResponseTime
                              = NumberValue(SubSeq(env.stdout, m[1] + 1, m[2]))
            /\ ~ok => Result.Status = StatusDown /\ Result.Error # ""

\* the output says time=1.5 ms after a wall-clock time of 1 ms or 3 ms: Up
\* with a response time of 1.5 ms
C25_Witness ==
    /\ Checked("ping")
    /\ Result.Status = StatusUp
    /\ Result.ResponseTime \notin Elapsed
    /\ 2 * Result.ResponseTime = 3 * Millisecond

\* C26: the docker checker returns Up exactly when the inspection succeeded
\* with a running container; a failed inspection gives Down with the text of
\* its error, a container that is not running gives Down with the 'is not
\* running' text, and the texts for an unreachable socket, a container that
\* is not found and a container that is not running all differ.
C26_DockerUpIffRunning ==
    Checked("docker") =>
        LET r == InspectContainer(env)
            unreachable == {"querying docker socket: " \o URLError(x) : x \in Errors \ {None}}
            notFound == "container " \o Quote(Target) \o " not found"
        IN  /\ (ret.outcome = "returned" /\ Result.Status = StatusUp)
                  <=> (r.err = None /\ r.state = "running")
            /\ r.err # None =>
                  /\ ret.outcome = "returned"
                  /\ Result.Status = StatusDown /\ Result.Error = r.err
            /\ (r.err = None /\ r.state = "stopped") =>
                  /\ ret.outcome = "returned"
                  /\ Result.Status = StatusDown /\ Result.Error = NotRunning
            /\ env.client = "unix" =>
                  /\ (env.reqErr = None /\ env.doErr # None) => Result.Error \in unreachable
                  /\ (env.reqErr = None /\ env.doErr = None /\ env.code = 404)
                        => Result.Error = notFound
                  /\ notFound \notin unreachable /\ NotRunning \notin unreachable
                  /\ notFound # NotRunning

\* the Docker socket answers 200 with a container that is not running
C26_Witness ==
    /\ Checked("docker")
    /\ env.client = "unix" /\ env.reqErr = None /\ env.doErr = None
    /\ env.code = 200 /\ env.body = "stopped"
    /\ Result.Status = StatusDown /\ Result.Error = NotRunning

\* C27: checker.New gives a Checker and no error exactly for the types that
\* Load accepts, and no Checker with an 'unknown checker type' error for any
\* other type; so the factory call of Start succeeds for every service of a
\* loaded configuration.
C27_FactoryAcceptsLoadedTypes ==
    /\ Checked("New") =>
          /\ Result.err = None <=> env.svc.Type \in validTypes
          /\ Result.err = None => Result.checker = env.svc.Type
          /\ Result.err # None =>
                /\ Result.checker = None
                /\ Result.err = "unknown checker type " \o Quote(env.svc.Type)
    /\ (Checked("Load") /\ Result.err = None) =>
          \A i \in 1..Len(Result.cfg.Services) : New(Result.cfg.Services[i]).err = None
    /\ (Checked("runServe") /\ ret.outcome = "serving") =>
          \A i \in DOMAIN ret.made : ret.made[i].err = None

\* runServe has started the loops of two services with checkers of
\* different variants
C27_Witness ==
    /\ Checked("runServe") /\ ret.outcome = "serving"
    /\ Len(ret.made) = 2
    /\ ret.made[1].checker = "docker" /\ ret.made[2].checker = "http"

\* the raw services of a file are acceptable: at least one, non-empty and
\* pairwise distinct names, non-empty targets, types of the enum
Acceptable(raw) ==
    /\ Len(raw) >= 1
    /\ \A i \in 1..Len(raw) :
          /\ raw[i].Name # "" /\ raw[i].Target # ""
          /\ raw[i].Type \in {"http", "tcp", "ping", "docker"}
    /\ \A i, j \in 1..Len(raw) : i # j => raw[i].Name # raw[j].Name

\* C28: a configuration returned by Load has at least one service, names
\* that are non-empty and pairwise distinct, non-empty targets and types of
\* the enum, these being the ones of the file; a file that violates any of
\* this gives an error and no configuration.
C28_LoadedConfigIsValid ==
    Checked("Load") =>
        /\ Result.err = None =>
              /\ ~Result.cfg.nil
              /\ Acceptable(Result.cfg.Services)
              /\ Len(Result.cfg.Services) = Len(env.file.services)
              /\ \A i \in 1..Len(Result.cfg.Services) :
                    /\ Result.cfg.Services[i].Name = env.file.services[i].Name
                    /\ Result.cfg.Services[i].Type = env.file.services[i].Type
                    /\ Result.cfg.Services[i].Target = env.file.services[i].Target
        /\ ~Acceptable(env.file.services) => Result.err # None
        /\ Result.err # None => Result.cfg = NoConfig /\ Result.err # ""

\* a file with two services of different names is loaded
C28_Witness ==
    /\ Checked("Load")
    /\ Len(env.file.services) = 2
    /\ Result.err = None /\ Len(Result.cfg.Services) = 2
    /\ Result.cfg.Services[1].Name # Result.cfg.Services[2].Name

\* C29: every service of a loaded configuration has a positive interval and
\* a positive timeout, 30s and 5s when omitted, so that the loop of a
\* service can always create its ticker.
C29_PositiveIntervalAndTimeout ==
    /\ (Checked("Load") /\ Result.err = None) =>
          \A i \in 1..Len(Result.cfg.Services) :
              /\ Result.cfg.Services[i].Interval > 0
              /\ Result.cfg.Services[i].Timeout > 0
              /\ env.file.services[i].Interval = << >>
                    => Result.cfg.Services[i].Interval = 30 * Second
              /\ env.file.services[i].Timeout = << >>
                    => Result.cfg.Services[i].Timeout = 5 * Second
    /\ Checked("runServe") => ret.outcome # "panic"

\* C30: with a webhook URL and no cooldown in the file, the Alerter built by
\* runServe has a cooldown of 5m.
C30_DefaultCooldown ==
    (/\ Checked("runServe") /\ ret.outcome = "serving"
     /\ ~env.file.cooldown.given
     /\ ret.alerter.built)
        => ret.alerter.cooldown = 5 * Minute

\* time.Parse(time.RFC3339Nano, ...) of a stored checked_at: the time, in
\* half seconds, that was formatted into it
ParseRFC3339Nano(x) == CHOOSE t \in 0..(MaxTime + MaxTimeLong) : FormatRFC3339Nano(t) = x

\* C31: a LatestCheck that returns no error returns nil when the store has no
\* check of the service, and otherwise a stored check of the service than
\* which none has a later checked_at, also among checks of the same second.
C31_LatestCheckIsLatest ==
    \A s \in Services :
        (lpc[s] = "check" /\ ~cur[s].readErr) =>
            IF RowsOf(s) = {} THEN cur[s].prev = None
            ELSE \E r \in RowsOf(s) :
                    /\ cur[s].prev = r.status
                    /\ \A q \in RowsOf(s) :
                           ParseRFC3339Nano(q.checked_at) <= ParseRFC3339Nano(r.checked_at)

\* C32: runChecks runs the probes of all services concurrently (no goroutine
\* waits for another), goes past wg.Wait only when every goroutine has
\* finished, prints one row per service in the order of the configuration,
\* and returns an error exactly when some service's result is not Up; a
\* service whose checker cannot be created has a Down result.
C32_RunChecksJoinsAndReports ==
    cmd.pc # None =>
        LET n == Len(env.services)
        IN  /\ \A k \in 1..n :
                  /\ cmd.g[k] = "new" => ENABLED GoNew(k)
                  /\ cmd.g[k] = "check" => ENABLED GoCheck(k)
            /\ cmd.pc \in {"print", "done"} => \A k \in 1..n : cmd.g[k] = "done"
            /\ cmd.pc = "done" =>
                  /\ Len(cmd.out) = n
                  /\ \A k \in 1..n :
                        /\ cmd.out[k].service = env.services[k].Name
                        /\ cmd.out[k].type = env.services[k].Type
                        /\ cmd.out[k].status = cmd.results[k].Status
                        /\ cmd.results[k].ServiceName = env.services[k].Name
                        /\ cmd.out[k].status \in Statuses
                        /\ env.services[k].Type \notin validTypes
                              => cmd.out[k].status = StatusDown
                  /\ ret.outcome = "returned"
                  /\ ret.value # None <=> \E k \in 1..n : cmd.out[k].status # StatusUp

\* two services were probed, the second finished first, both are Up: the
\* rows are in the order of the configuration and no error is returned
C32_Witness ==
    /\ cmd.pc = "done"
    /\ cmd.order = <<2, 1>>
    /\ cmd.out[1].service = "a" /\ cmd.out[2].service = "b"
    /\ cmd.out[1].status = StatusUp /\ cmd.out[2].status = StatusUp
    /\ ret = Return(None)

\* C33: a service has an entry in the cooldown map exactly when a
\* notification was dispatched for it, and the entry is the time of the
\* latest of these dispatches; an entry is never removed and never
\* decreases, and the map changes only in the step of a call that dispatches.
C33_EntryIsLastDispatch ==
    /\ [](\A svc \in Services :
             /\ svc \in DOMAIN lastAlert <=> SendsFor(svc) # {}
             /\ svc \in DOMAIN lastAlert =>
                   /\ \E i \in SendsFor(svc) : lastAlert[svc] = sends[i].at
                   /\ \A i \in SendsFor(svc) : sends[i].at <= lastAlert[svc])
    /\ [][/\ \A svc \in DOMAIN lastAlert :
                svc \in DOMAIN lastAlert' /\ lastAlert'[svc] >= lastAlert[svc]
          /\ lastAlert' # lastAlert =>
                \E t \in Threads :
                    /\ npc[t] = "update" /\ call'[t].outcome = "dispatched"
                    /\ Len(sends') = Len(sends) + 1
                    /\ sends'[Len(sends')].svc = call[t].svc
                    /\ \A svc \in DOMAIN lastAlert' \ {call[t].svc} :
                           svc \in DOMAIN lastAlert /\ lastAlert'[svc] = lastAlert[svc]]_vars

\* two notifications of one service were dispatched a cooldown apart: the
\* entry is the time of the second
C33_Witness ==
    \E svc \in Services : \E i, j \in SendsFor(svc) :
        /\ cooldown > 0
        /\ sends[i].at < sends[j].at
        /\ lastAlert[svc] = sends[j].at

\* The checks of s stored by the probes before the runCheck in progress.
StoredBefore(s) == {r \in RowsOf(s) : ParseRFC3339Nano(r.checked_at) < cur[s].at}

\* C34: the previous status with which the callback is called for a probe
\* is the status of the latest earlier probe of the service whose result
\* was stored, and absent when no earlier result was stored.
C34_PrevIsLastStored ==
    \A s \in Services :
        lpc[s] = "notify" =>
            IF StoredBefore(s) = {} THEN call[s].prev = None
            ELSE \E r \in StoredBefore(s) :
                    /\ call[s].prev = r.status
                    /\ \A q \in StoredBefore(s) :
                           ParseRFC3339Nano(q.checked_at) <= ParseRFC3339Nano(r.checked_at)

\* C36: a runCheck that is in progress when ctx is cancelled is not cut
\* short: with ctx cancelled, the return of Check is followed by the single
\* InsertCheck call, which stores nothing, then by the callback, entered
\* with the status Check returned; the loop does not exit before that.
C36_InFlightProbeCompletes ==
    /\ [](\A s \in Services :
             /\ (ctxDone /\ lpc[s] = "insert") => ENABLED RunCheckInsert(s)
             /\ (ctxDone /\ lpc[s] = "callback") => ENABLED RunCheckCallback(s))
    /\ [][\A s \in Services :
             ctxDone =>
                 /\ (lpc[s] = "check" /\ lpc'[s] # lpc[s]) => lpc'[s] = "insert"
                 /\ (lpc[s] = "insert" /\ lpc'[s] # lpc[s])
                        => /\ lpc'[s] = "callback"
                           /\ cur'[s].inserts = 1
                           /\ checks' = checks
                 /\ (lpc[s] = "callback" /\ lpc'[s] # lpc[s] /\ onResult # None)
                        => /\ lpc'[s] = "notify"
                           /\ call'[s].status = cur[s].status
                           /\ call'[s].prev = cur[s].prev
                 /\ lpc[s] \in InProbe => lpc'[s] # "stopped"]_vars

\* ctx is cancelled, the probe in progress returned Down, its row was not
\* stored, and the Alerter dispatched a webhook for it
C36_Witness ==
    \E s \in Services :
        /\ ctxDone /\ lpc[s] = "notify" /\ CurNotStored(s)
        /\ call[s].status = StatusDown /\ call[s].outcome = "dispatched"
        /\ \E i \in SendsFor(s) : sends[i].status = StatusDown /\ sends[i].at >= cur[s].at

\* C38: the ticker of a loop holds at most one tick: while one is pending
\* the ticker delivers no other, a pending tick goes away only by being
\* received by the select (or with the ticker, at the exit), and every
\* runCheck after the first starts by receiving the pending tick and leaves
\* none pending, so that the next one has to wait for a new delivery.
C38_TicksDoNotQueue ==
    /\ [](\A s \in Services : ticker[s] = "ticked" => ~ENABLED TickerFire(s))
    /\ [][\A s \in Services :
             /\ (lpc[s] # "latest" /\ lpc'[s] = "latest" /\ lpc[s] # "unstarted")
                    => /\ lpc[s] = "select"
                       /\ ticker[s] = "ticked" /\ ticker'[s] = "armed"
             /\ (ticker[s] = "ticked" /\ ticker'[s] # "ticked")
                    => \/ ticker'[s] = "armed" /\ lpc[s] = "select" /\ lpc'[s] = "latest"
                       \/ ticker'[s] = "stopped" /\ lpc'[s] = "stopped"
             /\ (ticker[s] # "ticked" /\ ticker'[s] = "ticked")
                    => ticker[s] = "armed" /\ lpc'[s] = lpc[s]]_vars

\* a tick is pending while a runCheck started by an earlier tick is still in
\* progress, the clock having advanced since its Check returned
C38_Witness ==
    \E s \in Services :
        /\ ticker[s] = "ticked"
        /\ lpc[s] \in {"insert", "callback", "notify"}
        /\ last[s].prev # None
        /\ now > cur[s].at

\* C39: Wait waits for the loops only: the start and the end of a send task
\* leave the WaitGroup and a blocked Wait as they are, and once every loop
\* has exited a blocked Wait can return whatever the state of the send
\* tasks, one still unsent included.
C39_WaitIgnoresSends ==
    /\ []((waitpc = "waiting" /\ \A s \in Services : lpc[s] \notin Running)
              => ENABLED WaitReturn)
    /\ [][sends' # sends => (wg' = wg /\ waitpc' = waitpc)]_vars

\* Wait has returned and the webhook dispatched for the last probe of a loop
\* that has exited is still unsent
C39_Witness ==
    /\ waitpc = "returned"
    /\ \E s \in services :
           /\ lpc[s] = "stopped"
           /\ \E i \in SendsFor(s) :
                  /\ sends[i].st = "spawned"
                  /\ sends[i].status = last[s].status
                  /\ sends[i].at >= last[s].at

(***************************************************************************)
(* Start called with a context that is already cancelled: two configured   *)
(* services, the store, and the scheduler with or without the Alerter as   *)
(* its result callback.                                                    *)
(***************************************************************************)
InitCancelled ==
    /\ AlerterInit
    /\ services = {"a", "b"}
    /\ onResult \in {None, "Notify"}
    /\ started = FALSE
    /\ ctxDone = TRUE
    /\ wg = 0
    /\ waitpc = "none"
    /\ lpc = [s \in Services |-> "unstarted"]
    /\ ticker = [s \in Services |-> "none"]
    /\ cur = [s \in Services |-> NoProbe]
    /\ last = [s \in Services |-> NoProbe]
    /\ checks = {}
    /\ NoOperation

NextCancelled ==
    \/ Start
    \/ WaitCall
    \/ WaitReturn
    \/ \E s \in Services : RunCheckLatest(s)
    \/ \E s \in Services : RunCheckProbe(s)
    \/ \E s \in Services : RunCheckInsert(s)
    \/ \E s \in Services : RunCheckCallback(s)
    \/ \E s \in Services : CallbackReturn(s)
    \/ \E s \in Services : TickerFire(s)
    \/ \E s \in Services : LoopTick(s)
    \/ \E s \in Services : LoopExit(s)
    \/ ClockTickSched

SpecCancelled == InitCancelled /\ [][NextCancelled]_vars

\* C37: when Start is called with the context already cancelled, every
\* configured service gets its loop, the loop goes through the steps of one
\* runCheck (LatestCheck, Check, InsertCheck, callback) and exits only from
\* its select after them, and it enters no second runCheck.
C37_ExactlyOneProbe ==
    /\ [](started => \A s \in services : lpc[s] # "unstarted")
    /\ [][\A s \in Services :
             /\ lpc'[s] # lpc[s] => <<lpc[s], lpc'[s]>> \in ProbeOrder
             /\ lpc'[s] = "stopped" => (lpc[s] = "stopped" \/ last[s].status # None)
             /\ (lpc[s] # "latest" /\ lpc'[s] = "latest") => lpc[s] = "unstarted"]_vars

(***************************************************************************)
(* The wired system kept running over a longer stretch of time: one        *)
(* service, the Alerter as result callback with a positive cooldown, and   *)
(* no shutdown.                                                            *)
(***************************************************************************)
InitLong ==
    /\ Init
    /\ cooldown = MaxCooldown
    /\ onResult = "Notify"

\* The clock of this system advances, within its own horizon.
ClockTickLong ==
    /\ now < MaxTimeLong
    /\ now' = now + 1
    /\ UNCHANGED <<cooldown, lastAlert, mu, npc, call, sends, ncalls, svars>>
    /\ UNCHANGED ovars

\* runService, lines 84-85, within that horizon.
LoopTickLong(s) ==
    /\ lpc[s] = "select"
    /\ ticker[s] = "ticked"
    /\ last[s].at < MaxTimeLong
    /\ ticker' = [ticker EXCEPT ![s] = "armed"]
    /\ lpc' = [lpc EXCEPT ![s] = "latest"]
    /\ UNCHANGED <<avars, services, onResult, started, ctxDone, wg, waitpc, cur, last, checks>>
    /\ UNCHANGED ovars

NextLong ==
    \/ Start
    \/ \E s \in Services : RunCheckLatest(s)
    \/ \E s \in Services : RunCheckProbe(s)
    \/ \E s \in Services : RunCheckInsert(s)
    \/ \E s \in Services : RunCheckCallback(s)
    \/ \E s \in Services : CallbackReturn(s)
    \/ \E s \in Services : TickerFire(s)
    \/ \E s \in Services : LoopTickLong(s)
    \/ \E s \in Services : NotifyLock(s)
    \/ \E s \in Services : NotifyCheck(s)
    \/ \E s \in Services : NotifyUpdate(s)
    \/ \E i \in 1..Len(sends) : Send(i)
    \/ ClockTickLong

SpecLong == InitLong /\ [][NextLong]_vars

\* The webhooks dispatched for service svc before the Notify call of its loop
\* that is in progress or has just returned.
EarlierSends(svc) ==
    {i \in SendsFor(svc) :
        call[svc].nsent = 0 \/ \E j \in SendsFor(svc) : j > i}

\* The latest of them reports Down.
LastSendDown(svc) ==
    \E i \in EarlierSends(svc) :
        /\ sends[i].status = StatusDown
        /\ \A j \in EarlierSends(svc) : j <= i

\* C35: when the latest webhook of a service reports Down, the Notify call of
\* its previous probe, which returned Up, was suppressed by the cooldown, and
\* the probe in progress returned Up again, then the Notify call of this
\* probe dispatches nothing.
C35_SuppressedNeverNotified ==
    \A s \in Services :
        (/\ lpc[s] = "notify"
         /\ lastOutcome[s] = "suppressed"
         /\ last[s].prev = StatusUp /\ last[s].status = StatusUp
         /\ LastSendDown(s))
            => call[s].outcome # "dispatched"

====
